---- MODULE Spec2Model ----
(***************************************************************************)
(* The cookbook service of devdonalds.ts: POST /entry registers an         *)
(* ingredient or a recipe in the in-memory cookbook, GET /summary resolves *)
(* a recipe into its base ingredients and total cook time.                 *)
(***************************************************************************)
EXTENDS FiniteSets, Integers, Sequences, TLC

(* ---------------------------------------------------------------------- *)
(* Bounds of the model                                                     *)
(* ---------------------------------------------------------------------- *)
(* Quantities and cook times are numbers >= 0 in the code; the model draws *)
(* them from the naturals up to these bounds (cook times from 1 in Spec).  *)
MaxQuantity == 1
MaxCookTime == 1

Quantities == 0 .. MaxQuantity
CookTimes == 1 .. MaxCookTime

(* ---------------------------------------------------------------------- *)
(* Type definitions (the zod schemas)                                      *)
(* ---------------------------------------------------------------------- *)
RequiredItem(n, q) == [name |-> n, quantity |-> q]

Recipe(n, items) == [type |-> "recipe", name |-> n, requiredItems |-> items]

Ingredient(n, t) == [type |-> "ingredient", name |-> n, cookTime |-> t]

(* recipeSchema: every quantity is a number >= 0. *)
recipeSchema(body) ==
  /\ body.type = "recipe"
  /\ \A i \in 1 .. Len(body.requiredItems) : body.requiredItems[i].quantity >= 0

(* ingredientSchema: cookTime is a number >= 0. *)
ingredientSchema(body) ==
  /\ body.type = "ingredient"
  /\ body.cookTime >= 0

(* cookbookEntrySchema.safeParse(req.body).success *)
cookbookEntrySchema(body) == recipeSchema(body) \/ ingredientSchema(body)

(* ---------------------------------------------------------------------- *)
(* The requests the model sends                                            *)
(* ---------------------------------------------------------------------- *)
(* Required-item lists of at most two items over the given names and       *)
(* quantities, repeated names included.                                    *)
ItemLists(names, quantities) ==
  LET items == {RequiredItem(n, q) : n \in names, q \in quantities}
  IN {<<>>} \cup {<<x>> : x \in items} \cup {<<x, y>> : x \in items, y \in items}

(* Query strings of GET /summary: ?name=<string>, or no usable name.       *)
Queries(names) ==
  {[isString |-> TRUE, name |-> n] : n \in names} \cup {[isString |-> FALSE, name |-> ""]}

(* Spec: three names, each of which may be an ingredient; two of them may  *)
(* also name a recipe with any item list; and bodies the schema refuses.   *)
Names == {"egg", "batter", "cake"}
RecipeNames == {"batter", "cake"}

Bodies ==
  {Ingredient(n, t) : n \in Names, t \in CookTimes}
    \cup {Recipe(n, items) : n \in RecipeNames, items \in ItemLists(Names, Quantities)}
    \cup {Ingredient(n, -1) : n \in Names}
    \cup {Recipe("cake", <<RequiredItem("egg", -1)>>)}

(* SpecGraph: every name may be an ingredient or a recipe, every quantity  *)
(* is 1: all required-item graphs on three names, cycles included.         *)
GraphBodies ==
  {Ingredient(n, 1) : n \in Names}
    \cup {Recipe(n, items) : n \in Names, items \in ItemLists(Names, {1})}
    \cup {Ingredient("egg", -1)}

(* SpecScenario: the cookbook of the worked scenario (egg, flour, batter,  *)
(* cake) with variations of its quantities, and a recipe (feast) that      *)
(* reaches flour along three paths.                                        *)
ScenarioNames == {"egg", "flour", "batter", "cake", "feast"}

ScenarioBodies ==
  {Ingredient("egg", t) : t \in {0, 5}}
    \cup {Ingredient("flour", 2), Ingredient("batter", 3), Ingredient("egg", -1)}
    \cup {Recipe("batter", <<RequiredItem("egg", a), RequiredItem("flour", b)>>) :
            a \in {1, 2}, b \in {1, 2}}
    \cup {Recipe("cake", <<RequiredItem("batter", m), RequiredItem("egg", a)>>) :
            m \in 0 .. 3, a \in {0, 1}}
    \cup {Recipe("cake", <<RequiredItem("batter", m)>>) : m \in 0 .. 3}
    \cup {Recipe("cake", <<RequiredItem("egg", 1), RequiredItem("egg", 2)>>)}
    \cup {Recipe("feast", <<RequiredItem("cake", 2), RequiredItem("batter", b),
                            RequiredItem("flour", 1)>>) : b \in {0, 1}}
    \cup {Recipe("feast", <<RequiredItem("sugar", 1), RequiredItem("cake", 1)>>)}

AllNames == Names \cup ScenarioNames

(* ---------------------------------------------------------------------- *)
(* Responses                                                               *)
(* ---------------------------------------------------------------------- *)
Text(status, msg) == [status |-> status, kind |-> "text", text |-> msg, summary |-> <<>>]

Json(status, summary) == [status |-> status, kind |-> "json", text |-> "", summary |-> summary]

MsgBadPayload == "Improperly formatted payload"
MsgDuplicateName == "An existing entry with the same name already exist."
MsgDuplicateItems == "Required items cannot have multiple elements with the same name."
MsgAdded == "Cookbook Entry successfully added!"
MsgNameNotString == "Query parameter 'name' must be a string!"
MsgIsIngredient == "An existing ingredient has the provided name."
MsgNotFound == "No recipe with the provided name found."
MsgUnresolvable == "The recipe contains recipes or ingredients not in the cookbook."
MsgRangeError == "RangeError: Maximum call stack size exceeded"
MsgTypeError == "TypeError: Cannot read properties of undefined"

(* ---------------------------------------------------------------------- *)
(* State                                                                   *)
(* ---------------------------------------------------------------------- *)
VARIABLES
  cookbook,    \* [recipes: name -> Recipe, ingredients: name -> Ingredient]
  res,         \* the response to the last request
  registered   \* history: per name, how many registrations succeeded

vars == <<cookbook, res, registered>>

(* Map.has / Map.set on the cookbook's two maps (functions on their keys). *)
MapHas(map, key) == key \in DOMAIN map

MapSet(map, key, value) ==
  [k \in DOMAIN map \cup {key} |-> IF k = key THEN value ELSE map[k]]

EmptyMap == [k \in {} |-> k]

(* ---------------------------------------------------------------------- *)
(* Map<string, number>: the resolved ingredient table. A JavaScript Map    *)
(* iterates in insertion order, so it is a sequence of entries with        *)
(* distinct keys; set() on a present key keeps its position.               *)
(* ---------------------------------------------------------------------- *)
TableHas(map, key) == \E i \in 1 .. Len(map) : map[i].name = key

TableGet(map, key) == map[CHOOSE i \in 1 .. Len(map) : map[i].name = key].quantity

TableSet(map, key, value) ==
  IF TableHas(map, key)
    THEN [i \in 1 .. Len(map) |->
            IF map[i].name = key THEN [name |-> key, quantity |-> value] ELSE map[i]]
    ELSE Append(map, [name |-> key, quantity |-> value])

TableKeys(map) == {map[i].name : i \in 1 .. Len(map)}

addToMapEntry_Overwrite(entry, quantity, map) == TableSet(map, entry, quantity)

(* map.set(entry, (map.get(entry) ?? 0) + quantity) *)
addToMapEntry(entry, quantity, map) ==
  TableSet(map, entry, (IF TableHas(map, entry) THEN TableGet(map, entry) ELSE 0) + quantity)

(* ---------------------------------------------------------------------- *)
(* getRecipeIngredients                                                    *)
(* ---------------------------------------------------------------------- *)
(* The recursion has no cycle guard: on a cyclic cookbook the engine's     *)
(* call stack runs out and a RangeError is thrown. The model's stack holds *)
(* more frames than any acyclic cookbook over AllNames can nest.           *)
StackLimit == Cardinality(AllNames)

Max(a, b) == IF a >= b THEN a ELSE b

StackOverflow_AsNull(deepest) == [kind |-> "null", table |-> <<>>, depth |-> deepest]

ResolvedTable(table, deepest) == [kind |-> "table", table |-> table, depth |-> deepest]

ResolvedNull(deepest) == [kind |-> "null", table |-> <<>>, depth |-> deepest]

StackOverflow(deepest) == [kind |-> "overflow", table |-> <<>>, depth |-> deepest]

IsNull_Never(result) == FALSE

(* if (!innerRecipeIngredients), if (!recipeIngredients) *)
IsNull(result) == result.kind = "null"

IsKnownIngredient_NotARecipe(cb, name) == ~MapHas(cb.recipes, name)

(* if (ingredient) after cookbook.ingredients.get(requiredItem.name) *)
IsKnownIngredient(cb, name) == MapHas(cb.ingredients, name)

(* if (recipe) after cookbook.recipes.get(requiredItem.name) *)
IsKnownRecipe(cb, name) == MapHas(cb.recipes, name)

ScaledQuantity_Unscaled(innerQuantity, quantity) == innerQuantity

(* innerQuantity * requiredItem.quantity *)
ScaledQuantity(innerQuantity, quantity) == innerQuantity * quantity

(* The inner for-loop: every entry of the sub-recipe's table, scaled, is   *)
(* added to the accumulator.                                               *)
RECURSIVE AddInnerIngredients(_, _, _, _)
AddInnerIngredients(inner, i, quantity, ingredients) ==
  IF i > Len(inner) THEN ingredients
  ELSE AddInnerIngredients(inner, i + 1, quantity,
         addToMapEntry(inner[i].name, ScaledQuantity(inner[i].quantity, quantity), ingredients))

(* getRecipeIngredients(recipe) called at recursion depth `depth`; the     *)
(* result carries the deepest recursion depth the call reached.            *)
RECURSIVE getRecipeIngredients(_, _, _)
RECURSIVE ForRequiredItems(_, _, _, _, _, _)

ForRequiredItems(cb, items, i, ingredients, depth, deepest) ==
  IF i > Len(items) THEN ResolvedTable(ingredients, deepest)
  ELSE LET requiredItem == items[i] IN
    IF IsKnownIngredient(cb, requiredItem.name)
      THEN ForRequiredItems(cb, items, i + 1,
             addToMapEntry(requiredItem.name, requiredItem.quantity, ingredients),
             depth, deepest)
    ELSE IF IsKnownRecipe(cb, requiredItem.name)
      THEN LET inner == getRecipeIngredients(cb, cb.recipes[requiredItem.name], depth + 1) IN
        IF inner.kind = "overflow" THEN inner
        ELSE IF IsNull(inner) THEN ResolvedNull(Max(deepest, inner.depth))
        ELSE ForRequiredItems(cb, items, i + 1,
               AddInnerIngredients(inner.table, 1, requiredItem.quantity, ingredients),
               depth, Max(deepest, inner.depth))
    ELSE ResolvedNull(deepest)

getRecipeIngredients(cb, recipe, depth) ==
  IF depth > StackLimit THEN StackOverflow(depth)
  ELSE ForRequiredItems(cb, recipe.requiredItems, 1, <<>>, depth, depth)

(* ---------------------------------------------------------------------- *)
(* buildSummary                                                            *)
(* ---------------------------------------------------------------------- *)
CookTimeOf_IgnoreQuantity(cookTime, quantity) == cookTime

(* cookbook.ingredients.get(recipeIngredient)!.cookTime * quantity *)
CookTimeOf(cookTime, quantity) == cookTime * quantity

RECURSIVE ForRecipeIngredients(_, _, _, _)
ForRecipeIngredients(cb, table, i, summary) ==
  IF i > Len(table) THEN [kind |-> "summary", summary |-> summary]
  ELSE IF ~MapHas(cb.ingredients, table[i].name)
    THEN [kind |-> "typeerror", summary |-> summary]
  ELSE ForRecipeIngredients(cb, table, i + 1,
         [summary EXCEPT
            !.cookTime = @ + CookTimeOf(cb.ingredients[table[i].name].cookTime,
                                        table[i].quantity),
            !.ingredients = Append(@, [name |-> table[i].name,
                                       quantity |-> table[i].quantity])])

buildSummary(cb, recipe) ==
  LET summary == [name |-> recipe.name, cookTime |-> 0, ingredients |-> <<>>]
      recipeIngredients == getRecipeIngredients(cb, recipe, 0)
  IN IF recipeIngredients.kind = "overflow" THEN [kind |-> "overflow", summary |-> summary]
     ELSE IF IsNull(recipeIngredients) THEN [kind |-> "null", summary |-> summary]
     ELSE ForRecipeIngredients(cb, recipeIngredients.table, 1, summary)

(* ---------------------------------------------------------------------- *)
(* GET /summary                                                            *)
(* ---------------------------------------------------------------------- *)
getSummary_NoIngredientCheck(cb, query) ==
  IF ~query.isString THEN Text(400, MsgNameNotString)
  ELSE IF ~MapHas(cb.recipes, query.name) THEN Text(400, MsgNotFound)
  ELSE LET built == buildSummary(cb, cb.recipes[query.name]) IN
    IF built.kind = "overflow" THEN Text(500, MsgRangeError)
    ELSE IF built.kind = "typeerror" THEN Text(500, MsgTypeError)
    ELSE IF built.kind = "null" THEN Text(400, MsgUnresolvable)
    ELSE Json(200, built.summary)

getSummary(cb, query) ==
  IF ~query.isString THEN Text(400, MsgNameNotString)
  ELSE IF MapHas(cb.ingredients, query.name) THEN Text(400, MsgIsIngredient)
  ELSE IF ~MapHas(cb.recipes, query.name) THEN Text(400, MsgNotFound)
  ELSE LET built == buildSummary(cb, cb.recipes[query.name]) IN
    IF built.kind = "overflow" THEN Text(500, MsgRangeError)
    ELSE IF built.kind = "typeerror" THEN Text(500, MsgTypeError)
    ELSE IF built.kind = "null" THEN Text(400, MsgUnresolvable)
    ELSE Json(200, built.summary)

(* ---------------------------------------------------------------------- *)
(* POST /entry                                                             *)
(* ---------------------------------------------------------------------- *)
EntryExists_RecipesOnly(cb, name) == MapHas(cb.recipes, name)

EntryExists_IngredientsOnly(cb, name) == MapHas(cb.ingredients, name)

(* cookbook.ingredients.has(name) || cookbook.recipes.has(name) *)
EntryExists(cb, name) == MapHas(cb.ingredients, name) \/ MapHas(cb.recipes, name)

HasDuplicateNames_WholeItems(requiredItems) ==
  Cardinality({requiredItems[i] : i \in 1 .. Len(requiredItems)}) # Len(requiredItems)

(* new Set(requiredItemNames).size !== requiredItemNames.length *)
HasDuplicateNames(requiredItems) ==
  Cardinality({requiredItems[i].name : i \in 1 .. Len(requiredItems)}) # Len(requiredItems)

(* The switch that commits the entry to one of the two maps. *)
Commit(cb, cookbookEntry) ==
  IF cookbookEntry.type = "recipe"
    THEN [cb EXCEPT !.recipes = MapSet(@, cookbookEntry.name, cookbookEntry)]
    ELSE [cb EXCEPT !.ingredients = MapSet(@, cookbookEntry.name, cookbookEntry)]

postEntry(cb, body) ==
  IF ~cookbookEntrySchema(body)
    THEN [cookbook |-> cb, res |-> Text(400, MsgBadPayload)]
  ELSE IF EntryExists(cb, body.name)
    THEN [cookbook |-> cb, res |-> Text(400, MsgDuplicateName)]
  ELSE IF body.type = "recipe" /\ HasDuplicateNames(body.requiredItems)
    THEN [cookbook |-> cb, res |-> Text(400, MsgDuplicateItems)]
  ELSE [cookbook |-> Commit(cb, body), res |-> Text(200, MsgAdded)]

(* ---------------------------------------------------------------------- *)
(* The state machine                                                       *)
(* ---------------------------------------------------------------------- *)
Succeeded(name) == IF name \in DOMAIN registered THEN registered[name] ELSE 0

Init ==
  /\ cookbook = [recipes |-> EmptyMap, ingredients |-> EmptyMap]
  /\ res = Text(0, "")
  /\ registered = EmptyMap

PostEntry(body) ==
  LET out == postEntry(cookbook, body) IN
  /\ cookbook' = out.cookbook
  /\ res' = out.res
  /\ registered' = IF out.res.status = 200
                     THEN MapSet(registered, body.name, Succeeded(body.name) + 1)
                     ELSE registered

GetSummary(query) ==
  /\ res' = getSummary(cookbook, query)
  /\ UNCHANGED <<cookbook, registered>>

Next ==
  \/ \E body \in Bodies : PostEntry(body)
  \/ \E query \in Queries(Names) : GetSummary(query)

Spec == Init /\ [][Next]_vars

NextGraph ==
  \/ \E body \in GraphBodies : PostEntry(body)
  \/ \E query \in Queries(Names) : GetSummary(query)

SpecGraph == Init /\ [][NextGraph]_vars

NextScenario ==
  \/ \E body \in ScenarioBodies : PostEntry(body)
  \/ \E query \in Queries(ScenarioNames) : GetSummary(query)

SpecScenario == Init /\ [][NextScenario]_vars

(* ---------------------------------------------------------------------- *)
(* Notions the properties are stated in, defined on the cookbook's         *)
(* required-item graph independently of the resolver                       *)
(* ---------------------------------------------------------------------- *)
ItemNames(items) == {items[i].name : i \in 1 .. Len(items)}

StoredNames(cb) == DOMAIN cb.ingredients \cup DOMAIN cb.recipes

(* The names a stored name requires directly; an ingredient is a leaf. *)
Requires(cb, name) ==
  IF name \in DOMAIN cb.recipes /\ name \notin DOMAIN cb.ingredients
    THEN ItemNames(cb.recipes[name].requiredItems)
    ELSE {}

RECURSIVE Closure(_, _)
Closure(cb, S) ==
  LET T == S \cup UNION {Requires(cb, n) : n \in S}
  IN IF T = S THEN S ELSE Closure(cb, T)

(* Every name in the transitive closure of the recipe's requiredItems. *)
TransitiveItems(cb, recipe) == Closure(cb, ItemNames(recipe.requiredItems))

ReferencesUnknown(cb, recipe) ==
  \E n \in TransitiveItems(cb, recipe) : n \notin StoredNames(cb)

(* The stored name requires itself, directly or transitively. *)
OnCycle(cb, name) == name \in Closure(cb, Requires(cb, name))

(* No cycle is reachable from the recipe. *)
Acyclic(cb, recipe) == \A n \in TransitiveItems(cb, recipe) : ~OnCycle(cb, n)

(* ---------------------------------------------------------------------- *)
(* C1: after any sequence of registrations no name is a key of both maps,  *)
(* at most one registration per name has succeeded, and a registration of  *)
(* a name already present, of either kind, is rejected.                    *)
(* ---------------------------------------------------------------------- *)
C1_Uniqueness ==
  /\ DOMAIN cookbook.ingredients \cap DOMAIN cookbook.recipes = {}
  /\ DOMAIN registered = StoredNames(cookbook)
  /\ \A n \in DOMAIN registered : registered[n] = 1
  /\ \A body \in Bodies :
       body.name \in StoredNames(cookbook) =>
         /\ postEntry(cookbook, body).res.status = 400
         /\ postEntry(cookbook, body).cookbook = cookbook

(* A registration was just rejected for its name, with an ingredient and a *)
(* recipe in the cookbook.                                                 *)
C1_Witness ==
  /\ res = Text(400, MsgDuplicateName)
  /\ DOMAIN cookbook.ingredients # {}
  /\ DOMAIN cookbook.recipes # {}

(* ---------------------------------------------------------------------- *)
(* C2: registering a recipe whose requiredItems repeats a name fails and   *)
(* leaves both maps exactly as they were, in every reachable store state.  *)
(* ---------------------------------------------------------------------- *)
RepeatsAName(items) ==
  \E i, j \in 1 .. Len(items) : i # j /\ items[i].name = items[j].name

(* C2: every recipe body that repeats an item name is answered 400 and     *)
(* leaves the cookbook as it was.                                          *)
C2_DuplicateItemsRejected ==
  \A body \in Bodies :
    (body.type = "recipe" /\ RepeatsAName(body.requiredItems)) =>
      /\ postEntry(cookbook, body).res.status = 400
      /\ postEntry(cookbook, body).cookbook = cookbook

(* A recipe was just rejected for its repeated item name, by a cookbook    *)
(* that already holds entries.                                             *)
C2_Witness ==
  /\ res = Text(400, MsgDuplicateItems)
  /\ StoredNames(cookbook) # {}

(* ---------------------------------------------------------------------- *)
(* C3, as claimed: a stored recipe whose transitive closure holds an       *)
(* unknown name resolves to null, and buildSummary returns null.           *)
(* ---------------------------------------------------------------------- *)
C3_AsClaimed ==
  \A n \in DOMAIN cookbook.recipes :
    ReferencesUnknown(cookbook, cookbook.recipes[n]) =>
      /\ getRecipeIngredients(cookbook, cookbook.recipes[n], 0).kind = "null"
      /\ buildSummary(cookbook, cookbook.recipes[n]).kind = "null"

(* C3, amended: such a recipe never yields a table or a summary, whatever  *)
(* the quantities; it yields null whenever no cycle is reachable from it   *)
(* (on a cyclic cookbook the recursion may exhaust the stack instead).     *)
C3_UnknownNeverResolves ==
  \A n \in DOMAIN cookbook.recipes :
    LET recipe == cookbook.recipes[n]
        table == getRecipeIngredients(cookbook, recipe, 0)
        built == buildSummary(cookbook, recipe)
    IN ReferencesUnknown(cookbook, recipe) =>
         /\ table.kind \in {"null", "overflow"}
         /\ built.kind = table.kind
         /\ Acyclic(cookbook, recipe) => table.kind = "null"

(* GET /summary just failed for cake, which requires batter at quantity 0, *)
(* and batter requires a name that was never registered.                   *)
C3_Witness ==
  /\ res = Text(400, MsgUnresolvable)
  /\ "cake" \in DOMAIN cookbook.recipes
  /\ "batter" \in DOMAIN cookbook.recipes
  /\ cookbook.recipes["cake"].requiredItems = <<RequiredItem("batter", 0)>>
  /\ cookbook.recipes["batter"].requiredItems = <<RequiredItem("egg", 1)>>
  /\ "egg" \notin StoredNames(cookbook)

(* ---------------------------------------------------------------------- *)
(* C4: in a resolved table each base ingredient's quantity is the sum,     *)
(* over every path from the recipe to that ingredient, of the product of   *)
(* the quantities along the path; a recipe requiring X at a and one        *)
(* sub-recipe at b that requires X at c resolves X to a + b*c.             *)
(* ---------------------------------------------------------------------- *)
(* Sum over all paths from a recipe with these items to the ingredient.    *)
RECURSIVE PathSum(_, _, _)
PathSum(cb, items, ingredient) ==
  IF items = <<>> THEN 0
  ELSE LET item == Head(items)
           here == IF item.name \in DOMAIN cb.ingredients
                     THEN (IF item.name = ingredient THEN item.quantity ELSE 0)
                   ELSE IF item.name \in DOMAIN cb.recipes
                     THEN item.quantity
                            * PathSum(cb, cb.recipes[item.name].requiredItems, ingredient)
                   ELSE 0
       IN here + PathSum(cb, Tail(items), ingredient)

DistinctKeys(table) ==
  \A i, j \in 1 .. Len(table) : table[i].name = table[j].name => i = j

(* recipe = [X at a, S at b] in either order, S = a recipe of ingredients  *)
(* only that requires X at c.                                              *)
DirectAndOneSubRecipe(cb, recipe, x, a, sub, b, c) ==
  /\ ItemNames(recipe.requiredItems) = {x, sub}
  /\ Len(recipe.requiredItems) = 2
  /\ x \in DOMAIN cb.ingredients
  /\ sub \in DOMAIN cb.recipes
  /\ RequiredItem(x, a) \in {recipe.requiredItems[i] : i \in 1 .. 2}
  /\ RequiredItem(sub, b) \in {recipe.requiredItems[i] : i \in 1 .. 2}
  /\ ItemNames(cb.recipes[sub].requiredItems) \subseteq DOMAIN cb.ingredients
  /\ \E i \in 1 .. Len(cb.recipes[sub].requiredItems) :
       cb.recipes[sub].requiredItems[i] = RequiredItem(x, c)

(* C4: every resolved quantity is the sum over paths of the products of    *)
(* the quantities, and X resolves to a + b*c in the direct-plus-one-       *)
(* sub-recipe shape.                                                       *)
C4_PathSums ==
  \A n \in DOMAIN cookbook.recipes :
    LET recipe == cookbook.recipes[n]
        resolved == getRecipeIngredients(cookbook, recipe, 0)
    IN resolved.kind = "table" =>
         /\ DistinctKeys(resolved.table)
         /\ TableKeys(resolved.table) =
              TransitiveItems(cookbook, recipe) \cap DOMAIN cookbook.ingredients
         /\ \A i \in 1 .. Len(resolved.table) :
              resolved.table[i].quantity =
                PathSum(cookbook, recipe.requiredItems, resolved.table[i].name)
         /\ \A x, sub \in ScenarioNames : \A a, b, c \in 0 .. 3 :
              DirectAndOneSubRecipe(cookbook, recipe, x, a, sub, b, c) =>
                TableGet(resolved.table, x) = a + b * c

(* cake = [batter x2, egg x1] over batter = [egg x2, flour x1] was just    *)
(* summarized: egg = 1 + 2*2.                                              *)
C4_Witness ==
  /\ res.kind = "json"
  /\ res.summary.name = "cake"
  /\ DirectAndOneSubRecipe(cookbook, cookbook.recipes["cake"], "egg", 1, "batter", 2, 2)
  /\ [name |-> "egg", quantity |-> 5] \in
       {res.summary.ingredients[i] : i \in 1 .. Len(res.summary.ingredients)}

(* ---------------------------------------------------------------------- *)
(* C5: if recipe R resolves to table T, a parent whose only required item  *)
(* is R at multiplier m resolves to the names of T, each with m times its  *)
(* quantity in T; m = 0 keeps every name, with quantity 0.                 *)
(* ---------------------------------------------------------------------- *)
Multipliers == 0 .. 3

(* C5: the single-item parent of R at m resolves to T's names, each at m   *)
(* times its quantity in T.                                                *)
C5_Scaling ==
  \A n \in DOMAIN cookbook.recipes : \A m \in Multipliers :
    LET T == getRecipeIngredients(cookbook, cookbook.recipes[n], 0)
        parent == Recipe("parent", <<RequiredItem(n, m)>>)
        P == getRecipeIngredients(cookbook, parent, 0)
    IN T.kind = "table" =>
         /\ P.kind = "table"
         /\ Len(P.table) = Len(T.table)
         /\ \A i \in 1 .. Len(T.table) :
              /\ P.table[i].name = T.table[i].name
              /\ P.table[i].quantity = m * T.table[i].quantity

(* cake = [batter x0] was just summarized: both of batter's ingredients    *)
(* are listed, each with quantity 0.                                       *)
C5_Witness ==
  /\ res.kind = "json"
  /\ res.summary.name = "cake"
  /\ cookbook.recipes["cake"].requiredItems = <<RequiredItem("batter", 0)>>
  /\ {res.summary.ingredients[i] : i \in 1 .. Len(res.summary.ingredients)} =
       {[name |-> "egg", quantity |-> 0], [name |-> "flour", quantity |-> 0]}

(* ---------------------------------------------------------------------- *)
(* C6: when resolution succeeds buildSummary returns the recipe's name,    *)
(* exactly the entries of the resolved table (each name once) and          *)
(* cookTime = sum over the entries of the ingredient's cookTime times the  *)
(* quantity; with egg(5), flour(2), batter = [egg x2, flour x1] and        *)
(* cake = [batter x3, egg x1], cake yields egg 7, flour 3, cookTime 41.    *)
(* ---------------------------------------------------------------------- *)
RECURSIVE TotalCookTime(_, _, _)
TotalCookTime(cb, table, keys) ==
  IF keys = {} THEN 0
  ELSE LET k == CHOOSE k \in keys : TRUE
       IN cb.ingredients[k].cookTime * TableGet(table, k)
            + TotalCookTime(cb, table, keys \ {k})

ScenarioB(cb) ==
  /\ cb.ingredients =
       [n \in {"egg", "flour"} |->
          IF n = "egg" THEN Ingredient("egg", 5) ELSE Ingredient("flour", 2)]
  /\ "batter" \in DOMAIN cb.recipes
  /\ "cake" \in DOMAIN cb.recipes
  /\ cb.recipes["batter"] =
       Recipe("batter", <<RequiredItem("egg", 2), RequiredItem("flour", 1)>>)
  /\ cb.recipes["cake"] =
       Recipe("cake", <<RequiredItem("batter", 3), RequiredItem("egg", 1)>>)

(* C6: name, ingredient list and cookTime of the summary follow the        *)
(* resolved table; Scenario B summarizes cake as egg 7, flour 3, 41.       *)
C6_Summary ==
  /\ \A n \in DOMAIN cookbook.recipes :
       LET recipe == cookbook.recipes[n]
           resolved == getRecipeIngredients(cookbook, recipe, 0)
           built == buildSummary(cookbook, recipe)
       IN resolved.kind = "table" =>
            /\ built.kind = "summary"
            /\ built.summary.name = recipe.name
            /\ built.summary.ingredients = resolved.table
            /\ DistinctKeys(built.summary.ingredients)
            /\ built.summary.cookTime =
                 TotalCookTime(cookbook, resolved.table, TableKeys(resolved.table))
  /\ ScenarioB(cookbook) =>
       LET summary == buildSummary(cookbook, cookbook.recipes["cake"]).summary
       IN /\ summary.name = "cake"
          /\ summary.cookTime = 41
          /\ Len(summary.ingredients) = 2
          /\ {summary.ingredients[i] : i \in 1 .. 2} =
               {[name |-> "egg", quantity |-> 7], [name |-> "flour", quantity |-> 3]}

(* Scenario B was registered and cake was just summarized with cookTime 41. *)
C6_Witness ==
  /\ ScenarioB(cookbook)
  /\ res.status = 200
  /\ res.kind = "json"
  /\ res.summary.name = "cake"
  /\ res.summary.cookTime = 41

(* ---------------------------------------------------------------------- *)
(* C7, as claimed: GET /summary answers by the store content alone: an     *)
(* ingredient name fails with name-is-an-ingredient, an absent name with   *)
(* name-not-found, a recipe whose closure holds an unknown name with       *)
(* unresolvable-reference, and a Summary is returned only for a recipe     *)
(* whose whole closure is registered.                                      *)
(* ---------------------------------------------------------------------- *)
C7_AsClaimed ==
  \A n \in Names :
    LET out == getSummary(cookbook, [isString |-> TRUE, name |-> n]) IN
    /\ n \in DOMAIN cookbook.ingredients => out = Text(400, MsgIsIngredient)
    /\ n \notin StoredNames(cookbook) => out = Text(400, MsgNotFound)
    /\ (n \in DOMAIN cookbook.recipes /\ ReferencesUnknown(cookbook, cookbook.recipes[n]))
         => out = Text(400, MsgUnresolvable)
    /\ out.kind = "json" =>
         /\ n \in DOMAIN cookbook.recipes
         /\ ~ReferencesUnknown(cookbook, cookbook.recipes[n])

(* C7, amended: as claimed, except that a recipe whose closure holds an    *)
(* unknown name fails with unresolvable-reference when no cycle is         *)
(* reachable from it, and otherwise with that or with the stack-exhaustion *)
(* error; a Summary is returned exactly for the recipes whose closure is   *)
(* registered and acyclic. No GET /summary outcome modifies the store.     *)
C7_Classification ==
  \A n \in Names :
    LET out == getSummary(cookbook, [isString |-> TRUE, name |-> n]) IN
    /\ n \in DOMAIN cookbook.ingredients => out = Text(400, MsgIsIngredient)
    /\ n \notin StoredNames(cookbook) => out = Text(400, MsgNotFound)
    /\ (n \in DOMAIN cookbook.recipes /\ ReferencesUnknown(cookbook, cookbook.recipes[n]))
         => /\ out \in {Text(400, MsgUnresolvable), Text(500, MsgRangeError)}
            /\ Acyclic(cookbook, cookbook.recipes[n]) => out = Text(400, MsgUnresolvable)
    /\ out.kind = "json" <=>
         /\ n \in DOMAIN cookbook.recipes
         /\ ~ReferencesUnknown(cookbook, cookbook.recipes[n])
         /\ Acyclic(cookbook, cookbook.recipes[n])
    /\ out.kind = "json" => out.status = 200 /\ out.summary.name = n

IsSummaryResponse(r) ==
  \/ r.kind = "json"
  \/ r.text \in {MsgNameNotString, MsgIsIngredient, MsgNotFound, MsgUnresolvable,
                 MsgRangeError, MsgTypeError}

(* C7, amended: the classification holds in every reachable state and no   *)
(* step that answers a GET /summary changes the cookbook.                  *)
C7_Outcomes ==
  /\ []C7_Classification
  /\ [][IsSummaryResponse(res') => cookbook' = cookbook]_vars

(* GET /summary just failed as unresolvable for a stored recipe from which *)
(* no cycle is reachable, with an ingredient also in the cookbook.         *)
C7_Witness ==
  /\ res = Text(400, MsgUnresolvable)
  /\ DOMAIN cookbook.ingredients # {}
  /\ \E n \in DOMAIN cookbook.recipes :
       /\ ReferencesUnknown(cookbook, cookbook.recipes[n])
       /\ Acyclic(cookbook, cookbook.recipes[n])
       /\ Len(cookbook.recipes[n].requiredItems) = 2

(* ---------------------------------------------------------------------- *)
(* C8: every key of a non-null table returned by getRecipeIngredients is a *)
(* key of cookbook.ingredients, so buildSummary's non-null-asserted lookup *)
(* never yields undefined.                                                 *)
(* ---------------------------------------------------------------------- *)
C8_KeysAreIngredients ==
  /\ res.text # MsgTypeError
  /\ \A n \in DOMAIN cookbook.recipes :
       LET resolved == getRecipeIngredients(cookbook, cookbook.recipes[n], 0) IN
       resolved.kind = "table" =>
         /\ TableKeys(resolved.table) \subseteq DOMAIN cookbook.ingredients
         /\ buildSummary(cookbook, cookbook.recipes[n]).kind = "summary"

(* A recipe that reaches its one ingredient both directly and through a    *)
(* sub-recipe was just summarized.                                         *)
C8_Witness ==
  /\ res.kind = "json"
  /\ Len(res.summary.ingredients) = 1
  /\ res.summary.ingredients[1].quantity = 2
  /\ \E sub \in ItemNames(cookbook.recipes[res.summary.name].requiredItems) :
       sub \in DOMAIN cookbook.recipes

(* ---------------------------------------------------------------------- *)
(* C9, as claimed: resolution returns for every recipe with an acyclic     *)
(* required-item graph, at recursion depth at most the height of the tree, *)
(* and a recipe that requires itself, directly or transitively, never      *)
(* returns.                                                                *)
(* ---------------------------------------------------------------------- *)
SubRecipes(cb, items) ==
  {n \in ItemNames(items) : n \in DOMAIN cb.recipes /\ n \notin DOMAIN cb.ingredients}

RECURSIVE MaxOf(_)
MaxOf(S) ==
  LET x == CHOOSE x \in S : TRUE
  IN IF S = {x} THEN x ELSE Max(x, MaxOf(S \ {x}))

(* Nesting height of the recipes below a recipe with these items. *)
RECURSIVE Height(_, _)
Height(cb, items) ==
  IF SubRecipes(cb, items) = {} THEN 0
  ELSE 1 + MaxOf({Height(cb, cb.recipes[n].requiredItems) : n \in SubRecipes(cb, items)})

ReturnsWithinHeight(cb, recipe) ==
  LET resolved == getRecipeIngredients(cb, recipe, 0) IN
  Acyclic(cb, recipe) =>
    /\ resolved.kind \in {"table", "null"}
    /\ resolved.depth <= Height(cb, recipe.requiredItems)

(* C9, as claimed: acyclic recipes return within their height, and every   *)
(* recipe that requires itself runs out of stack.                          *)
C9_AsClaimed ==
  \A n \in DOMAIN cookbook.recipes :
    /\ ReturnsWithinHeight(cookbook, cookbook.recipes[n])
    /\ OnCycle(cookbook, n) =>
         getRecipeIngredients(cookbook, cookbook.recipes[n], 0).kind = "overflow"

(* C9, amended: a recipe that requires itself never returns a table; it    *)
(* recurses without bound when every name of its closure is registered,    *)
(* and otherwise either does so or returns null (an unknown name met       *)
(* before the traversal re-enters the cycle).                              *)
C9_Termination ==
  \A n \in DOMAIN cookbook.recipes :
    LET recipe == cookbook.recipes[n]
        resolved == getRecipeIngredients(cookbook, recipe, 0)
    IN /\ ReturnsWithinHeight(cookbook, recipe)
       /\ OnCycle(cookbook, n) => resolved.kind \in {"overflow", "null"}
       /\ (OnCycle(cookbook, n) /\ ~ReferencesUnknown(cookbook, recipe))
            => resolved.kind = "overflow"
       /\ resolved.kind = "overflow" => ~Acyclic(cookbook, recipe)

(* Two recipes that require each other are registered, all their names are *)
(* known, and GET /summary just ran out of stack.                          *)
C9_Witness ==
  /\ res = Text(500, MsgRangeError)
  /\ \E n \in DOMAIN cookbook.recipes :
       /\ OnCycle(cookbook, n)
       /\ n \notin Requires(cookbook, n)
       /\ ~ReferencesUnknown(cookbook, cookbook.recipes[n])

(* ---------------------------------------------------------------------- *)
(* C10: once GET /summary for a name yields a Summary or                   *)
(* name-is-an-ingredient, it yields the same result after any further      *)
(* POST /entry, successful or rejected; only name-not-found and            *)
(* unresolvable-reference outcomes can change.                             *)
(* ---------------------------------------------------------------------- *)
(* (The first disjunct only spares the evaluation of a step that leaves    *)
(* the cookbook alone, where the second holds trivially.)                  *)
C10_Stable ==
  [][\/ cookbook' = cookbook
     \/ \A query \in Queries(Names) :
          LET before == getSummary(cookbook, query) IN
          before.text \notin {MsgNotFound, MsgUnresolvable} =>
            getSummary(cookbook', query) = before]_vars

(* A registration just succeeded in a cookbook where cake has a Summary    *)
(* and an entry that cake does not require is stored beside it.            *)
C10_Witness ==
  /\ res = Text(200, MsgAdded)
  /\ getSummary(cookbook, [isString |-> TRUE, name |-> "cake"]).kind = "json"
  /\ TransitiveItems(cookbook, cookbook.recipes["cake"]) # {}
  /\ "batter" \in StoredNames(cookbook)
  /\ "batter" \notin TransitiveItems(cookbook, cookbook.recipes["cake"])

====
